---- MODULE Spec2Model ----
(***************************************************************************)
(* Model of bin/archive.py: the archive run as a state machine over the    *)
(* destination filesystem, the temporary files, the external tools and     *)
(* the script's position.                                                  *)
(***************************************************************************)
EXTENDS Integers, Sequences, FiniteSets, TLC

(* ------------------------------ bounds -------------------------------- *)

\* Largest number of entries (files and directories) below the source root.
MaxNodes == 3
\* Number of distinct entry names a directory may hold.
MaxNames == 2
\* Largest number of entries of the directory imgsizes.py is given.
MaxImages == 3

(* --------------------------- modes and paths -------------------------- *)

Oct(u, g, o) == u * 64 + g * 8 + o
Oct4(s, u, g, o) == s * 512 + Oct(u, g, o)

RECURSIVE BitAnd(_, _)
BitAnd(x, y) ==
    IF x = 0 \/ y = 0 THEN 0
    ELSE (x % 2) * (y % 2) + 2 * BitAnd(x \div 2, y \div 2)

\* 0o555, the mask of set_readonly
RO_MASK == 365
\* 0o222, the three write bits
W_BITS == Oct(2, 2, 2)
\* 0o555, the read and execute bits
RX_BITS == Oct(5, 5, 5)

AllNames == <<"a", "b", "c", "d">>
Names == {AllNames[i] : i \in 1..MaxNames}
NameIndex(n) == CHOOSE i \in 1..Len(AllNames) : AllNames[i] = n

\* The modes and contents of the source entries, by name: the source trees
\* mix writable, read-only, group/other-writable and setuid/setgid entries.
FileModes == <<Oct(6, 4, 4), Oct4(4, 7, 7, 5), Oct(4, 4, 4), Oct(6, 6, 6)>>
DirModes == <<Oct(7, 5, 5), Oct4(2, 7, 7, 5), Oct(5, 5, 5), Oct(7, 7, 7)>>
RootModes == {Oct(7, 5, 5), Oct(7, 7, 7)}

S_IFDIR == Oct4(32, 0, 0, 0)
S_IFREG == Oct4(64, 0, 0, 0)

Entry(k, n) ==
    IF k = "file"
    THEN [kind |-> "file", mode |-> FileModes[NameIndex(n)], data |-> NameIndex(n)]
    ELSE [kind |-> "dir", mode |-> DirModes[NameIndex(n)], data |-> 0]
RootEntry(m) == [kind |-> "dir", mode |-> m, data |-> 0]

\* A tree is a function from the paths that exist (sequences of names, <<>>
\* the root) to their entries; the tree that does not exist has no path.
NoTree == <<>>
Exists(t) == <<>> \in DOMAIN t
Parent(p) == SubSeq(p, 1, Len(p) - 1)
Last(p) == p[Len(p)]
IsPrefix(p, q) == Len(p) <= Len(q) /\ SubSeq(q, 1, Len(p)) = p

Children(t, p) == {q \in DOMAIN t : Len(q) = Len(p) + 1 /\ Parent(q) = p}
\* The listing with the subdirectories counted among the files.
FilesInWithDirs(t, p) == {Last(q) : q \in Children(t, p)}

FilesIn(t, p) == {Last(q) : q \in {c \in Children(t, p) : t[c].kind = "file"}}
DirsIn(t, p) == {Last(q) : q \in {c \in Children(t, p) : t[c].kind = "dir"}}

Extensions(t) ==
    {t @@ (Append(p, n) :> Entry(k, n)) :
        p \in {q \in DOMAIN t : t[q].kind = "dir"},
        n \in Names,
        k \in {"file", "dir"}} \ {t}

RECURSIVE TreesUpTo(_)
TreesUpTo(k) ==
    IF k = 0 THEN {(<<>> :> RootEntry(m)) : m \in RootModes}
    ELSE LET S == TreesUpTo(k - 1)
         IN  S \cup {u \in UNION {Extensions(t) : t \in S} :
                        Cardinality(DOMAIN u) <= k + 1}

SourceTrees == TreesUpTo(MaxNodes)

(* ------------------------------- files -------------------------------- *)

\* A file outside the copied tree: absent, or present with a mode and what
\* has been written so far ("empty", "partial" or "complete" output of the
\* tool that writes it).
NoFile == [state |-> "absent", mode |-> 0, fmt |-> "none", body |-> <<>>]
NewFile(m) == [state |-> "empty", mode |-> m, fmt |-> "none", body |-> <<>>]
Partial(f, m) ==
    [state |-> "partial", mode |-> IF f.state = "absent" THEN m ELSE f.mode,
     fmt |-> "none", body |-> <<>>]
Complete(f, m, fmt, body) ==
    [state |-> "complete", mode |-> IF f.state = "absent" THEN m ELSE f.mode,
     fmt |-> fmt, body |-> body]

\* mkstemp creates 0o600; the tools create their output under umask 022.
TmpMode == Oct(6, 0, 0)
OutMode == Oct(6, 4, 4)

(* ------------------------- helpers of the script ---------------------- *)

\* os.path.join(dirpath, name) and os.path.normpath on component sequences:
\* the walk's paths start with ".", which normpath drops.
join(dirpath, name) == Append(dirpath, name)
normpath(path) == SelectSeq(path, LAMBDA c : c # ".")

StMode(e) == (IF e.kind = "dir" THEN S_IFDIR ELSE S_IFREG) + e.mode

\* set_readonly with the mask mistyped as 0o755: the owner keeps the write bit.
set_readonly_0755(e) == [e EXCEPT !.mode = BitAnd(StMode(e), Oct(7, 5, 5))]

set_readonly(e) == [e EXCEPT !.mode = BitAnd(StMode(e), RO_MASK)]

set_readonly_file(f) == [f EXCEPT !.mode = BitAnd(S_IFREG + f.mode, RO_MASK)]

\* os.makedirs(path, exist_ok=True): never raises for a directory that is there.
makedirs_exist_ok(exists) == FALSE

\* os.makedirs(path) without exist_ok: raises FileExistsError when the
\* directory is already there.
makedirs_raises(exists) == exists

Perms(S) ==
    {s \in [1..Cardinality(S) -> S] : \A i, j \in 1..Cardinality(S) : s[i] = s[j] => i = j}

\* The loop body with only the files made read-only (for name in fnames).
RECURSIVE ChmodAllFilesOnly(_, _)
ChmodAllFilesOnly(t, ps) ==
    IF ps = <<>> THEN t
    ELSE ChmodAllFilesOnly(
            IF t[Head(ps)].kind = "file"
            THEN [t EXCEPT ![Head(ps)] = set_readonly(t[Head(ps)])]
            ELSE t,
            Tail(ps))

RECURSIVE ChmodAll(_, _)
ChmodAll(t, ps) ==
    IF ps = <<>> THEN t
    ELSE ChmodAll([t EXCEPT ![Head(ps)] = set_readonly(t[Head(ps)])], Tail(ps))

\* What the external tools compute.
Digest(d) == (d * 7 + 3) % 11
B2sumOutput(list, t) ==
    IF list = <<>> THEN << <<Digest(0), <<"-">> >> >>
    ELSE [i \in 1..Len(list) |-> <<Digest(t[list[i]].data), list[i]>>]
TarOutput(list, t) == [i \in 1..Len(list) |-> <<t[list[i]].data, list[i]>>]

(* ------------------------------- state -------------------------------- *)

VARIABLES
    src,            \* the tree at SOURCE_PATH
    dirs,           \* which of ARCHIVE_PATH ("root"), files, checksums, tarballs exist
    copy,           \* the tree at files/IDENT
    checksum_file,  \* checksums/IDENT.b2sum
    tarball_file,   \* tarballs/IDENT.archive
    tmp_manifest,   \* tmpf of the checksum stage
    tmp_archive,    \* tmpf of the tarball stage
    pc,             \* the statement the script is at
    cwd,            \* "start" or "files_dest_path"
    files_list,
    walk,           \* directories os.walk has still to yield
    running,        \* the external tool the script is waiting on, or "none"
    returncode,     \* the exit status of each external tool
    out,            \* the lines printed
    error,          \* the exception or signal that ended the run
    exit_code       \* -1 while the process runs

\* The state of bin/imgsizes.py, a script of its own.
VARIABLES
    sources,        \* the images to convert
    idx,            \* how many of them the loop has finished
    had_error,
    converts,       \* the convert commands run so far: source, size, outcome
    img_out,        \* the lines printed
    img_pc,         \* the statement imgsizes.py is at
    img_exit        \* -1 while the process runs

imgvars == <<sources, idx, had_error, converts, img_out, img_pc, img_exit>>

\* imgsizes.py not started.
ImgIdle ==
    /\ sources = <<>>
    /\ idx = 0
    /\ had_error = FALSE
    /\ converts = <<>>
    /\ img_out = <<>>
    /\ img_pc = "args"
    /\ img_exit = -1

archivevars ==
    <<src, dirs, copy, checksum_file, tarball_file, tmp_manifest, tmp_archive,
      pc, cwd, files_list, walk, running, returncode, out, error, exit_code>>

vars == <<archivevars, imgvars>>

fsvars == <<dirs, copy, checksum_file, tarball_file>>
tmpvars == <<tmp_manifest, tmp_archive>>
walkvars == <<cwd, files_list, walk>>
toolvars == <<running, returncode>>

ToolNames == {"b2sum", "sign", "tar", "encrypt"}

\* What the destination may hold when the script starts: nothing, an empty
\* ARCHIVE_PATH, the directories of archives under other identifiers, a
\* complete archive under this identifier, or the copy an interrupted run
\* under this identifier left unlocked.
PriorTree == (<<>> :> RootEntry(Oct(7, 5, 5))) @@ (<<"a">> :> Entry("file", "a"))
RECURSIVE Locked(_, _)
Locked(t, ps) ==
    IF ps = {} THEN t
    ELSE LET p == CHOOSE q \in ps : TRUE
         IN  Locked([t EXCEPT ![p] = set_readonly(t[p])], ps \ {p})
PriorFile(fmt) == [state |-> "complete", mode |-> Oct(4, 4, 4), fmt |-> fmt, body |-> <<>>]
Dest(d, c, m, b) == [dirs |-> d, copy |-> c, checksum_file |-> m, tarball_file |-> b]
DestStates ==
    { Dest({}, NoTree, NoFile, NoFile),
      Dest({"root"}, NoTree, NoFile, NoFile),
      Dest({"root", "files"}, NoTree, NoFile, NoFile),
      Dest({"root", "checksums"}, NoTree, NoFile, NoFile),
      Dest({"root", "tarballs"}, NoTree, NoFile, NoFile),
      Dest({"root", "files", "checksums", "tarballs"}, NoTree, NoFile, NoFile),
      Dest({"root", "files"}, PriorTree, NoFile, NoFile),
      Dest({"root", "files", "checksums", "tarballs"}, Locked(PriorTree, DOMAIN PriorTree),
           PriorFile("clearsign"), PriorFile("gpg")) }

Init ==
    /\ ImgIdle
    /\ src \in SourceTrees \cup {NoTree}
    /\ \E d \in DestStates :
        /\ dirs = d.dirs
        /\ copy = d.copy
        /\ checksum_file = d.checksum_file
        /\ tarball_file = d.tarball_file
    /\ tmp_manifest = NoFile
    /\ tmp_archive = NoFile
    /\ pc = "args"
    /\ cwd = "start"
    /\ files_list = <<>>
    /\ walk = <<>>
    /\ running = "none"
    /\ returncode = [t \in ToolNames |-> "none"]
    /\ out = <<>>
    /\ error = "none"
    /\ exit_code = -1

\* The statements of the script in the order they are written.
Statements ==
    <<"args", "config", "makedirs_files", "copytree", "chdir", "walk",
      "makedirs_checksums", "tmp_manifest", "b2sum", "sign", "readonly_checksum",
      "makedirs_tarballs", "tmp_archive", "tar", "encrypt", "readonly_tarball", "end">>

StatementsTarballFirst ==
    <<"args", "config", "makedirs_files", "copytree", "chdir", "walk",
      "makedirs_tarballs", "tmp_archive", "tar", "encrypt", "readonly_tarball",
      "makedirs_checksums", "tmp_manifest", "b2sum", "sign", "readonly_checksum", "end">>

Following(order, p) == order[(CHOOSE i \in 1..Len(order) : order[i] = p) + 1]

\* The statement after p, with the checksum and tarball stages exchanged.
after_swapped(p) == Following(StatementsTarballFirst, p)

\* The statement after p.
after(p) == Following(Statements, p)

(* ----------------------------- exits ---------------------------------- *)

\* An uncaught exception with temporary files that are not deleted on close
\* (NamedTemporaryFile(delete=False)).
RaiseKeepingTmp(exc) ==
    /\ error' = exc
    /\ exit_code' = IF exc = "KeyboardInterrupt" THEN 130 ELSE 1
    /\ pc' = "exited"
    /\ UNCHANGED <<tmp_manifest, tmp_archive>>
    /\ running' = "none"

\* An uncaught exception: the with blocks close (and so delete) the
\* temporary file, subprocess.run kills a child it is waiting on, and the
\* interpreter exits 1.
Raise(exc) ==
    /\ error' = exc
    /\ exit_code' = IF exc = "KeyboardInterrupt" THEN 130 ELSE 1
    /\ pc' = "exited"
    /\ tmp_manifest' = NoFile
    /\ tmp_archive' = NoFile
    /\ running' = "none"

\* sys.exit(code) and the end of the script.
Exit(code) ==
    /\ exit_code' = code
    /\ pc' = "exited"
    /\ UNCHANGED error

(* ------------------------ arguments and config ------------------------ *)

ParseArgs ==
    /\ pc = "args"
    /\ \E a \in {"help", "usage", "run"} :
        \/ /\ a = "help"
           /\ out' = Append(out, "Usage")
           /\ Exit(0)
        \/ /\ a = "usage"
           /\ out' = Append(out, "Usage")
           /\ Exit(1)
        \/ /\ a = "run"
           /\ pc' = after(pc)
           /\ UNCHANGED <<out, error, exit_code>>
    /\ UNCHANGED <<imgvars, src, fsvars, tmpvars, walkvars, toolvars>>

LoadConfig ==
    /\ pc = "config"
    /\ \/ /\ pc' = after(pc)
          /\ UNCHANGED <<error, exit_code, tmpvars, running>>
       \/ Raise("ConfigError")
    /\ UNCHANGED <<imgvars, src, fsvars, walkvars, returncode, out>>

(* ----------------------------- snapshot ------------------------------- *)

MakedirsFiles ==
    /\ pc = "makedirs_files"
    /\ IF makedirs_raises("files" \in dirs)
       THEN Raise("FileExistsError") /\ UNCHANGED dirs
       ELSE /\ dirs' = dirs \cup {"root", "files"}
            /\ pc' = after(pc)
            /\ UNCHANGED <<error, exit_code, tmpvars, running>>
    /\ UNCHANGED <<imgvars, src, copy, checksum_file, tarball_file, walkvars, returncode, out>>

\* The tree without the entry p and what is below it.
Without(t, p) == [q \in {r \in DOMAIN t : ~IsPrefix(p, r)} |-> t[q]]

Copytree ==
    /\ pc = "copytree"
    /\ \/ /\ ~Exists(src)
          /\ Raise("FileNotFoundError")
          /\ UNCHANGED copy
       \/ /\ Exists(src)
          /\ makedirs_raises(Exists(copy))
          /\ Raise("FileExistsError")
          /\ UNCHANGED copy
       \/ /\ Exists(src)
          /\ ~makedirs_raises(Exists(copy))
          /\ \/ /\ copy' = src @@ copy
                /\ pc' = after(pc)
                /\ UNCHANGED <<error, exit_code, tmpvars, running>>
             \/ \E p \in DOMAIN src \ {<<>>} :
                /\ copy' = Without(src, p) @@ copy
                /\ Raise("shutil.Error")
    /\ UNCHANGED <<imgvars, src, dirs, checksum_file, tarball_file, walkvars, returncode, out>>

Chdir ==
    /\ pc = "chdir"
    /\ cwd' = "files_dest_path"
    /\ files_list' = <<>>
    /\ walk' = << <<".">> >>
    /\ pc' = after(pc)
    /\ UNCHANGED <<imgvars, src, fsvars, tmpvars, toolvars, out, error, exit_code>>

\* One iteration of the os.walk loop: the directory at the head of the walk
\* is listed (in the order the filesystem returns its entries), its files go
\* on files_list, its files and directories are made read-only, and os.walk
\* goes on with its subdirectories.
WalkStep ==
    /\ pc = "walk"
    /\ walk # <<>>
    /\ LET dirpath == Head(walk)
           here == normpath(dirpath)
       IN  \E fnames \in Perms(FilesIn(copy, here)), dirnames \in Perms(DirsIn(copy, here)) :
            /\ files_list' = files_list \o
                    [i \in 1..Len(fnames) |-> normpath(join(dirpath, fnames[i]))]
            /\ copy' = ChmodAll(copy,
                    [i \in 1..Len(fnames \o dirnames) |->
                        normpath(join(dirpath, (fnames \o dirnames)[i]))])
            /\ walk' = [i \in 1..Len(dirnames) |-> join(dirpath, dirnames[i])] \o Tail(walk)
    /\ UNCHANGED <<imgvars, src, dirs, checksum_file, tarball_file, tmpvars, pc, cwd, toolvars,
                   out, error, exit_code>>

\* The end of the loop without set_readonly(".").
LockRootSkipped ==
    /\ pc = "walk"
    /\ walk = <<>>
    /\ out' = Append(out, "Archived to")
    /\ pc' = after(pc)
    /\ UNCHANGED <<imgvars, src, fsvars, tmpvars, walkvars, toolvars, error, exit_code>>

LockRoot ==
    /\ pc = "walk"
    /\ walk = <<>>
    /\ copy' = [copy EXCEPT ![normpath(<<".">>)] = set_readonly(copy[normpath(<<".">>)])]
    /\ out' = Append(out, "Archived to")
    /\ pc' = after(pc)
    /\ UNCHANGED <<imgvars, src, dirs, checksum_file, tarball_file, tmpvars, walkvars, toolvars,
                   error, exit_code>>

(* ----------------------------- checksums ------------------------------ *)

MakedirsChecksums ==
    /\ pc = "makedirs_checksums"
    /\ IF makedirs_raises("checksums" \in dirs)
       THEN Raise("FileExistsError") /\ UNCHANGED dirs
       ELSE /\ dirs' = dirs \cup {"root", "checksums"}
            /\ pc' = after(pc)
            /\ UNCHANGED <<error, exit_code, tmpvars, running>>
    /\ UNCHANGED <<imgvars, src, copy, checksum_file, tarball_file, walkvars, returncode, out>>

OpenTmpManifest ==
    /\ pc = "tmp_manifest"
    /\ tmp_manifest' = NewFile(TmpMode)
    /\ pc' = after(pc)
    /\ UNCHANGED <<imgvars, src, fsvars, tmp_archive, walkvars, toolvars, out, error, exit_code>>

\* subprocess.run(["b2sum", *files_list], stdout=tmpf, check=True)
B2sumCall ==
    /\ pc = "b2sum"
    /\ running = "none"
    /\ running' = "b2sum"
    /\ UNCHANGED <<imgvars, src, fsvars, tmpvars, pc, walkvars, returncode, out, error, exit_code>>

B2sumWrite ==
    /\ pc = "b2sum"
    /\ running = "b2sum"
    /\ tmp_manifest.state = "empty"
    /\ tmp_manifest' = Partial(tmp_manifest, TmpMode)
    /\ UNCHANGED <<imgvars, src, fsvars, tmp_archive, pc, walkvars, toolvars, out, error, exit_code>>

B2sumReturn ==
    /\ pc = "b2sum"
    /\ running = "b2sum"
    /\ \/ /\ returncode' = [returncode EXCEPT !["b2sum"] = "ok"]
          /\ tmp_manifest' = Complete(tmp_manifest, TmpMode, "b2sum",
                                      B2sumOutput(files_list, copy))
          /\ running' = "none"
          /\ pc' = after(pc)
          /\ UNCHANGED <<tmp_archive, error, exit_code>>
       \/ /\ returncode' = [returncode EXCEPT !["b2sum"] = "failed"]
          /\ Raise("CalledProcessError")
    /\ UNCHANGED <<imgvars, src, fsvars, walkvars, out>>

\* subprocess.run(["gpg", "-as", "--clearsign", "-u", KEYID, "-o", checksum_path, tmpf.name])
SignCall ==
    /\ pc = "sign"
    /\ running = "none"
    /\ running' = "sign"
    /\ UNCHANGED <<imgvars, src, fsvars, tmpvars, pc, walkvars, returncode, out, error, exit_code>>

SignWrite ==
    /\ pc = "sign"
    /\ running = "sign"
    /\ checksum_file.state = "absent"
    /\ checksum_file' = Partial(checksum_file, OutMode)
    /\ UNCHANGED <<imgvars, src, dirs, copy, tarball_file, tmpvars, pc, walkvars, toolvars, out,
                   error, exit_code>>

\* gpg ends; its exit status is not looked at, and the with block closes tmpf.
SignReturn ==
    /\ pc = "sign"
    /\ running = "sign"
    /\ \/ /\ returncode' = [returncode EXCEPT !["sign"] = "ok"]
          /\ checksum_file' = Complete(checksum_file, OutMode, "clearsign", tmp_manifest.body)
       \/ /\ returncode' = [returncode EXCEPT !["sign"] = "failed"]
          /\ checksum_file' \in {checksum_file, NoFile}
    /\ running' = "none"
    /\ tmp_manifest' = NoFile
    /\ pc' = after(pc)
    /\ UNCHANGED <<imgvars, src, dirs, copy, tarball_file, tmp_archive, walkvars, out, error, exit_code>>

ReadonlyChecksum ==
    /\ pc = "readonly_checksum"
    /\ IF checksum_file.state = "absent"
       THEN Raise("FileNotFoundError") /\ UNCHANGED <<checksum_file, out>>
       ELSE /\ checksum_file' = set_readonly_file(checksum_file)
            /\ out' = Append(out, "Checksums")
            /\ pc' = after(pc)
            /\ UNCHANGED <<error, exit_code, tmpvars, running>>
    /\ UNCHANGED <<imgvars, src, dirs, copy, tarball_file, walkvars, returncode>>

(* ------------------------------ tarball ------------------------------- *)

MakedirsTarballs ==
    /\ pc = "makedirs_tarballs"
    /\ IF makedirs_raises("tarballs" \in dirs)
       THEN Raise("FileExistsError") /\ UNCHANGED dirs
       ELSE /\ dirs' = dirs \cup {"root", "tarballs"}
            /\ pc' = after(pc)
            /\ UNCHANGED <<error, exit_code, tmpvars, running>>
    /\ UNCHANGED <<imgvars, src, copy, checksum_file, tarball_file, walkvars, returncode, out>>

OpenTmpArchive ==
    /\ pc = "tmp_archive"
    /\ tmp_archive' = NewFile(TmpMode)
    /\ pc' = after(pc)
    /\ UNCHANGED <<imgvars, src, fsvars, tmp_manifest, walkvars, toolvars, out, error, exit_code>>

\* subprocess.run(["tar", "cJ", *files_list], stdout=tmpf, check=True)
TarCall ==
    /\ pc = "tar"
    /\ running = "none"
    /\ running' = "tar"
    /\ UNCHANGED <<imgvars, src, fsvars, tmpvars, pc, walkvars, returncode, out, error, exit_code>>

TarWrite ==
    /\ pc = "tar"
    /\ running = "tar"
    /\ tmp_archive.state = "empty"
    /\ files_list # <<>>
    /\ tmp_archive' = Partial(tmp_archive, TmpMode)
    /\ UNCHANGED <<imgvars, src, fsvars, tmp_manifest, pc, walkvars, toolvars, out, error, exit_code>>

\* tar's return without check=True: a failure is not raised.
TarReturnUnchecked ==
    /\ pc = "tar"
    /\ running = "tar"
    /\ \/ /\ files_list # <<>>
          /\ returncode' = [returncode EXCEPT !["tar"] = "ok"]
          /\ tmp_archive' = Complete(tmp_archive, TmpMode, "tar.xz",
                                     TarOutput(files_list, copy))
       \/ /\ returncode' = [returncode EXCEPT !["tar"] = "failed"]
          /\ UNCHANGED tmp_archive
    /\ running' = "none"
    /\ pc' = after(pc)
    /\ UNCHANGED <<imgvars, src, fsvars, tmp_manifest, walkvars, out, error, exit_code>>

\* tar refuses to create an archive of no members.
TarReturn ==
    /\ pc = "tar"
    /\ running = "tar"
    /\ \/ /\ files_list # <<>>
          /\ returncode' = [returncode EXCEPT !["tar"] = "ok"]
          /\ tmp_archive' = Complete(tmp_archive, TmpMode, "tar.xz",
                                     TarOutput(files_list, copy))
          /\ running' = "none"
          /\ pc' = after(pc)
          /\ UNCHANGED <<tmp_manifest, error, exit_code>>
       \/ /\ returncode' = [returncode EXCEPT !["tar"] = "failed"]
          /\ Raise("CalledProcessError")
    /\ UNCHANGED <<imgvars, src, fsvars, walkvars, out>>

\* subprocess.run(["gpg", "-e", "-r", KEYID, "-o", tarball_path, tmpf.name])
EncryptCall ==
    /\ pc = "encrypt"
    /\ running = "none"
    /\ running' = "encrypt"
    /\ UNCHANGED <<imgvars, src, fsvars, tmpvars, pc, walkvars, returncode, out, error, exit_code>>

\* gpg -e given checksum_path as its output.
EncryptWriteToChecksumPath ==
    /\ pc = "encrypt"
    /\ running = "encrypt"
    /\ checksum_file.state # "partial"
    /\ checksum_file' = Partial(checksum_file, OutMode)
    /\ UNCHANGED <<imgvars, src, dirs, copy, tarball_file, tmpvars, pc, walkvars, toolvars, out,
                   error, exit_code>>

EncryptWrite ==
    /\ pc = "encrypt"
    /\ running = "encrypt"
    /\ tarball_file.state = "absent"
    /\ tarball_file' = Partial(tarball_file, OutMode)
    /\ UNCHANGED <<imgvars, src, dirs, copy, checksum_file, tmpvars, pc, walkvars, toolvars, out,
                   error, exit_code>>

EncryptReturn ==
    /\ pc = "encrypt"
    /\ running = "encrypt"
    /\ \/ /\ returncode' = [returncode EXCEPT !["encrypt"] = "ok"]
          /\ tarball_file' = Complete(tarball_file, OutMode, "gpg", tmp_archive.body)
       \/ /\ returncode' = [returncode EXCEPT !["encrypt"] = "failed"]
          /\ tarball_file' \in {tarball_file, NoFile}
    /\ running' = "none"
    /\ tmp_archive' = NoFile
    /\ pc' = after(pc)
    /\ UNCHANGED <<imgvars, src, dirs, copy, checksum_file, tmp_manifest, walkvars, out, error,
                   exit_code>>

ReadonlyTarball ==
    /\ pc = "readonly_tarball"
    /\ IF tarball_file.state = "absent"
       THEN Raise("FileNotFoundError") /\ UNCHANGED <<tarball_file, out>>
       ELSE /\ tarball_file' = set_readonly_file(tarball_file)
            /\ out' = Append(out, "Encrypted tarball")
            /\ pc' = after(pc)
            /\ UNCHANGED <<error, exit_code, tmpvars, running>>
    /\ UNCHANGED <<imgvars, src, dirs, copy, checksum_file, walkvars, returncode>>

\* The script runs off its last line.
Finish ==
    /\ pc = "end"
    /\ Exit(0)
    /\ UNCHANGED <<imgvars, src, fsvars, tmpvars, walkvars, toolvars, out>>

(* --------------------------- interruption ----------------------------- *)

\* SIGINT: Python raises KeyboardInterrupt in the statement being executed.
Interrupt ==
    /\ pc \notin {"args", "exited"}
    /\ Raise("KeyboardInterrupt")
    /\ UNCHANGED <<imgvars, src, fsvars, walkvars, returncode, out>>

\* SIGTERM or SIGKILL: the script installs no handler, the process ends
\* where it is and no with block is unwound.
Terminate ==
    /\ pc \notin {"args", "exited"}
    /\ error' = "SIGTERM"
    /\ exit_code' = 143
    /\ pc' = "exited"
    /\ running' = "none"
    /\ UNCHANGED <<imgvars, src, fsvars, tmpvars, walkvars, returncode, out>>

Next ==
    \/ ParseArgs \/ LoadConfig
    \/ MakedirsFiles \/ Copytree \/ Chdir \/ WalkStep \/ LockRoot
    \/ MakedirsChecksums \/ OpenTmpManifest
    \/ B2sumCall \/ B2sumWrite \/ B2sumReturn
    \/ SignCall \/ SignWrite \/ SignReturn \/ ReadonlyChecksum
    \/ MakedirsTarballs \/ OpenTmpArchive
    \/ TarCall \/ TarWrite \/ TarReturn
    \/ EncryptCall \/ EncryptWrite \/ EncryptReturn \/ ReadonlyTarball
    \/ Finish \/ Interrupt \/ Terminate

Spec == Init /\ [][Next]_vars

(* ----------------------------- imgsizes.py ---------------------------- *)

\* archive.py not started, nothing at its destination.
ArchiveIdle ==
    /\ src = NoTree
    /\ dirs = {}
    /\ copy = NoTree
    /\ checksum_file = NoFile
    /\ tarball_file = NoFile
    /\ tmp_manifest = NoFile
    /\ tmp_archive = NoFile
    /\ pc = "args"
    /\ cwd = "start"
    /\ files_list = <<>>
    /\ walk = <<>>
    /\ running = "none"
    /\ returncode = [t \in ToolNames |-> "none"]
    /\ out = <<>>
    /\ error = "none"
    /\ exit_code = -1

InitImg == ArchiveIdle /\ ImgIdle

ImgExit(code) == img_exit' = code /\ img_pc' = "exited"

ImgParseArgs ==
    /\ img_pc = "args"
    /\ \E a \in {"usage", "help", "run"} :
        \/ /\ a = "usage"
           /\ img_out' = Append(img_out, "Usage")
           /\ ImgExit(1)
        \/ /\ a = "help"
           /\ img_out' = Append(img_out, "Usage")
           /\ ImgExit(0)
        \/ /\ a = "run"
           /\ img_pc' = "sources"
           /\ UNCHANGED <<img_out, img_exit>>
    /\ UNCHANGED <<archivevars, sources, idx, had_error, converts>>

\* SOURCE_PATH does not exist, is a directory of n entries, or is one file;
\* then the count is printed, the output directories and the log are opened
\* and the loop starts.
ImgListSources ==
    /\ img_pc = "sources"
    /\ \/ /\ img_out' = Append(img_out, "does not exist")
          /\ ImgExit(1)
          /\ UNCHANGED <<sources, idx, had_error>>
       \/ \E n \in 0..MaxImages :
          /\ sources' = [k \in 1..n |-> AllNames[k]]
          /\ img_out' = Append(img_out, "Converting")
          /\ idx' = 0
          /\ had_error' = FALSE
          /\ img_pc' = "convert1920"
          /\ UNCHANGED img_exit
    /\ UNCHANGED <<archivevars, converts>>

\* had_error after a convert command whose last result alone is kept.
after_convert_last(h, ok) == ~ok

\* had_error after a convert command: the except branch sets it.
after_convert(h, ok) == IF ok THEN h ELSE TRUE

\* for i, src in enumerate(sources): the first try block.
Convert1920 ==
    /\ img_pc = "convert1920"
    /\ idx < Len(sources)
    /\ \E ok \in BOOLEAN :
        /\ converts' = Append(converts, [src |-> sources[idx + 1], size |-> "1920", ok |-> ok])
        /\ had_error' = after_convert(had_error, ok)
    /\ img_pc' = "convert800"
    /\ UNCHANGED <<archivevars, sources, idx, img_out, img_exit>>

\* The second try block, and the end of the iteration.
Convert800 ==
    /\ img_pc = "convert800"
    /\ \E ok \in BOOLEAN :
        /\ converts' = Append(converts, [src |-> sources[idx + 1], size |-> "800", ok |-> ok])
        /\ had_error' = after_convert(had_error, ok)
    /\ idx' = idx + 1
    /\ img_pc' = "convert1920"
    /\ UNCHANGED <<archivevars, sources, img_out, img_exit>>

\* After the loop: the verdict and the exit status.
ImgReport ==
    /\ img_pc = "convert1920"
    /\ idx = Len(sources)
    /\ IF ~had_error
       THEN img_out' = Append(img_out, "All succeeded.") /\ ImgExit(0)
       ELSE img_out' = Append(img_out, "Failed!") /\ ImgExit(1)
    /\ UNCHANGED <<archivevars, sources, idx, had_error, converts>>

NextImg == ImgParseArgs \/ ImgListSources \/ Convert1920 \/ Convert800 \/ ImgReport

SpecImg == InitImg /\ [][NextImg]_vars

(* ------------------------------ claims -------------------------------- *)

Printed(line) == \E i \in 1..Len(out) : out[i] = line
Failed(t) == returncode[t] = "failed"
ArchiveRun == ~Printed("Usage")
Ended == pc = "exited"

\* C1: every external-tool failure is fatal. Once the digest, signing,
\* compression or encryption tool has returned a failing status, nothing
\* after that call is executed (a failed digest is followed by no signing, a
\* failed signing by no lock of the manifest and no "Checksums" line, a
\* failed compression by no encryption, a failed encryption by no lock of
\* the bundle and no "Encrypted tarball" line) and the process never exits 0.
C1_ToolFailureIsFatal ==
    /\ (\E t \in ToolNames : Failed(t)) => exit_code # 0
    /\ Failed("b2sum") => returncode["sign"] = "none"
    /\ Failed("sign") => ~Printed("Checksums") /\ returncode["tar"] = "none"
    /\ Failed("tar") => returncode["encrypt"] = "none"
    /\ Failed("encrypt") => ~Printed("Encrypted tarball")

\* C2: if the signing tool failed, then once the run has ended there is no
\* file at checksums/IDENT.b2sum, however the tool failed.
C2_NoManifestAfterSigningFailure ==
    (Ended /\ Failed("sign")) => checksum_file.state = "absent"

\* C3: if the encryption tool failed, then once the run has ended there is
\* no file at tarballs/IDENT.archive, however the tool failed.
C3_NoBundleAfterEncryptionFailure ==
    (Ended /\ Failed("encrypt")) => tarball_file.state = "absent"

\* C4: once the snapshot stage has completed ("Archived to" is printed), the
\* copy holds exactly the entries of the source and every one of them, the
\* root included, has its three write bits cleared and the read and execute
\* bits it had in the source.
C4_SnapshotIsReadOnly ==
    Printed("Archived to") =>
        /\ DOMAIN copy = DOMAIN src
        /\ \A p \in DOMAIN copy :
            /\ BitAnd(copy[p].mode, W_BITS) = 0
            /\ BitAnd(copy[p].mode, RX_BITS) = BitAnd(src[p].mode, RX_BITS)

\* C4 witness: a completed snapshot of a tree with a file in a nested
\* directory and an empty directory, whose source entries were writable.
C4_Witness ==
    /\ Printed("Archived to")
    /\ \E p \in DOMAIN copy : Len(p) = 2 /\ copy[p].kind = "file"
    /\ \E p \in DOMAIN copy : p # <<>> /\ copy[p].kind = "dir" /\ Children(copy, p) = {}
    /\ \A p \in DOMAIN src : BitAnd(src[p].mode, W_BITS) # 0

LockedCopyComplete ==
    /\ Exists(src)
    /\ DOMAIN copy = DOMAIN src
    /\ \A p \in DOMAIN copy :
        /\ copy[p].data = src[p].data
        /\ BitAnd(copy[p].mode, W_BITS) = 0

\* C5: an archive run exits 0 only if the locked copy of every source entry,
\* a manifest whose signing succeeded and a bundle whose encryption
\* succeeded all exist complete and read-only at their final paths.
C5_ExitZeroMeansAllArtifacts ==
    (ArchiveRun /\ exit_code = 0) =>
        /\ LockedCopyComplete
        /\ returncode["sign"] = "ok"
        /\ checksum_file.state = "complete"
        /\ BitAnd(checksum_file.mode, W_BITS) = 0
        /\ returncode["encrypt"] = "ok"
        /\ tarball_file.state = "complete"
        /\ BitAnd(tarball_file.mode, W_BITS) = 0

\* C6: in every state of a run the final manifest path is either absent or
\* holds the complete signed manifest.
C6_ManifestPublishedAtomically ==
    \/ checksum_file.state = "absent"
    \/ checksum_file.state = "complete" /\ checksum_file.fmt = "clearsign"

\* C7: in every state of a run the final bundle path is either absent or
\* holds a bundle whose encryption completed.
C7_BundlePublishedAtomically ==
    \/ tarball_file.state = "absent"
    \/ tarball_file.state = "complete" /\ tarball_file.fmt = "gpg"

NoTmpLeft == tmp_manifest.state = "absent" /\ tmp_archive.state = "absent"

C9_ExistingArchiveUntouched ==
    [][(Exists(copy) /\ pc \in {"args", "config", "makedirs_files", "copytree"}) =>
          /\ UNCHANGED fsvars
          /\ pc' \in {"config", "makedirs_files", "exited"}
          /\ pc = "makedirs_files" =>
                /\ pc' = "exited"
                /\ error' \in {"FileExistsError", "KeyboardInterrupt", "SIGTERM"}
                /\ exit_code' \notin {0, -1}]_vars

\* C9 witness: the run found files/IDENT and ended with FileExistsError.
C9_Witness == Exists(copy) /\ Ended /\ error = "FileExistsError" /\ ~Printed("Archived to")

\* The state of the run as the caller sees it.
RunState ==
    IF Ended THEN (IF exit_code = 0 THEN "Done" ELSE "Failed")
    ELSE IF Printed("Encrypted tarball") THEN "Packaged"
    ELSE IF Printed("Checksums") THEN "ManifestSigned"
    ELSE IF Printed("Archived to") THEN "Snapshotted"
    ELSE "Start"

Transitions ==
    { <<"Start", "Snapshotted">>, <<"Snapshotted", "ManifestSigned">>,
      <<"ManifestSigned", "Packaged">>, <<"Packaged", "Done">> }

\* The state in which each tool runs.
StageOf(t) == IF t \in {"b2sum", "sign"} THEN "Snapshotted" ELSE "ManifestSigned"
ToolsOf(s) ==
    IF s \in {"ManifestSigned"} THEN {"b2sum", "sign"}
    ELSE IF s \in {"Packaged", "Done"} THEN ToolNames
    ELSE {}

\* C10: once the arguments are accepted, every step of a run keeps the state
\* or moves it one place along Start, Snapshotted, ManifestSigned, Packaged,
\* Done, or to Failed; Done and Failed are left by no step; a tool runs only
\* in the state of its stage, is called at most once, and every tool of a
\* stage has returned before the state of the next stage is entered.
C10_StagesInOrder ==
    [][pc # "args" =>
          /\ \/ RunState' = RunState
             \/ <<RunState, RunState'>> \in Transitions
             \/ RunState \notin {"Done", "Failed"} /\ RunState' = "Failed"
          /\ RunState \in {"Done", "Failed"} => UNCHANGED vars
          /\ running' # "none" => RunState' = StageOf(running')
          /\ \A t \in ToolNames :
              /\ returncode[t] # "none" => returncode'[t] = returncode[t] /\ running' # t
              /\ returncode'[t] # "none" =>
                    RunState' \in {StageOf(t), "Failed"} \/ t \in ToolsOf(RunState')
          /\ \A t \in ToolsOf(RunState') : returncode'[t] # "none" /\ running' # t]_vars

\* C10 witness: a run that went through every stage and exited 0.
C10_Witness ==
    /\ RunState = "Done"
    /\ out = <<"Archived to", "Checksums", "Encrypted tarball">>
    /\ \A t \in ToolNames : returncode[t] = "ok"

\* C11: the manifest document handed to the signer holds exactly one line
\* per entry of files_list, in the order of files_list, and each line's
\* digest is the digest of that file's bytes in the locked copy; an empty
\* files_list gives a manifest of no lines.
C11_ManifestLinePerFile ==
    (pc = "sign" /\ tmp_manifest.state = "complete") =>
        /\ Len(tmp_manifest.body) = Len(files_list)
        /\ \A i \in 1..Len(tmp_manifest.body) :
            /\ tmp_manifest.body[i][2] = files_list[i]
            /\ tmp_manifest.body[i][1] = Digest(copy[files_list[i]].data)

\* The order of path strings: names compare by their letters and "/" sorts
\* before every letter, so paths compare component by component.
RECURSIVE PathLeq(_, _)
PathLeq(p, q) ==
    IF p = <<>> THEN TRUE
    ELSE IF q = <<>> THEN FALSE
    ELSE IF Head(p) = Head(q) THEN PathLeq(Tail(p), Tail(q))
    ELSE NameIndex(Head(p)) < NameIndex(Head(q))

Sorted(list) == \A i, j \in 1..Len(list) : i < j => PathLeq(list[i], list[j])

RegularFiles(t) == {p \in DOMAIN t : t[p].kind = "file"}

ListsEveryFileOnce(list, t) ==
    /\ {list[i] : i \in 1..Len(list)} = RegularFiles(t)
    /\ \A i, j \in 1..Len(list) : list[i] = list[j] => i = j
    /\ \A i \in 1..Len(list) : list[i] # <<>> /\ \A k \in 1..Len(list[i]) : list[i][k] # "."

\* C12 as stated: the file list of a completed snapshot is sorted and holds
\* every regular file of the copy exactly once, as a normalized relative
\* path, and nothing else.
C12_FileListSorted ==
    Printed("Archived to") =>
        /\ Sorted(files_list)
        /\ ListsEveryFileOnce(files_list, copy)

\* C12 as amended: the file list of a completed snapshot holds every regular
\* file of the copy exactly once, as a normalized relative path, and nothing
\* else; the files of a directory come before the files of the directories
\* below it. (The order of the names within a directory is the order the
\* filesystem returns them; the list is not sorted.)
C12_FileListComplete ==
    Printed("Archived to") =>
        /\ ListsEveryFileOnce(files_list, copy)
        /\ \A i, j \in 1..Len(files_list) :
            (/\ Parent(files_list[i]) # Parent(files_list[j])
             /\ IsPrefix(Parent(files_list[i]), Parent(files_list[j]))) => i < j

\* C12 witness: a completed snapshot whose file list is out of order: a file
\* of the root listed before a file of a subdirectory that sorts first.
C12_Witness ==
    /\ Printed("Archived to")
    /\ Len(files_list) >= 2
    /\ ~Sorted(files_list)
    /\ \E i \in 1..Len(files_list) : Len(files_list[i]) > 1

IsReadOnly(e) == BitAnd(e.mode, W_BITS) = 0
AllReadOnly(t) == \A p \in DOMAIN t : IsReadOnly(t[p])

\* C13: the digest tool is started only after every file and directory of
\* the copy, the root included, has been made read-only, and from the end
\* of the locking on no step changes the content, the mode or the set of
\* entries of the copy.
C13_DigestAfterLock ==
    [][/\ (running' = "b2sum" \/ returncode'["b2sum"] # "none") =>
            Printed("Archived to") /\ Exists(copy) /\ AllReadOnly(copy)
       /\ Printed("Archived to") => copy' = copy]_vars

\* C13 witness: the digest tool is running on a locked copy with a file in
\* a subdirectory.
C13_Witness ==
    /\ running = "b2sum"
    /\ AllReadOnly(copy)
    /\ \E p \in DOMAIN copy : Len(p) = 2 /\ copy[p].kind = "file"

\* The entries the loop has made read-only so far: those whose directory
\* os.walk has already yielded; the root once the loop is over.
Pending(d) == \E i \in 1..Len(walk) : IsPrefix(normpath(walk[i]), d)
Processed(p) == IF p = <<>> THEN Printed("Archived to") ELSE ~Pending(Parent(p))
Below(d, q) == q # d /\ IsPrefix(d, q)

\* C14 as stated: during the locking walk a directory has been made
\* read-only only if every entry beneath it has been made read-only.
C14_BottomUp ==
    pc = "walk" =>
        \A d, q \in DOMAIN copy :
            (copy[d].kind = "dir" /\ Below(d, q) /\ Processed(d)) => Processed(q)

\* C14 as amended: the locking walk is top-down. An entry is made read-only
\* when os.walk yields the directory that holds it, so a subdirectory is
\* made read-only before the entries beneath it and every entry that has
\* been made read-only lies in directories that were made read-only before
\* it; entries not yet reached keep the mode of the source; the root of the
\* copy is made read-only last, after the loop.
C14_TopDown ==
    pc = "walk" =>
        /\ copy[<<>>].mode = src[<<>>].mode
        /\ \A p \in DOMAIN copy \ {<<>>} :
            /\ Processed(p) =>
                /\ IsReadOnly(copy[p])
                /\ Parent(p) # <<>> => Processed(Parent(p))
            /\ ~Processed(p) => copy[p].mode = src[p].mode

\* C14 witness: a subdirectory is already read-only while a file beneath it
\* is still writable.
C14_Witness ==
    /\ pc = "walk"
    /\ \E d, q \in DOMAIN copy :
        /\ copy[d].kind = "dir" /\ d # <<>> /\ Below(d, q)
        /\ Processed(d) /\ IsReadOnly(copy[d])
        /\ ~Processed(q) /\ ~IsReadOnly(copy[q])

\* C15: once the compression tool has failed, the encryption tool is never
\* started, nothing is at the final bundle path, and the run has ended with
\* a non-zero exit code.
C15_CompressionFailureStopsRun ==
    Failed("tar") =>
        /\ returncode["encrypt"] = "none"
        /\ running # "encrypt"
        /\ tarball_file.state = "absent"
        /\ Ended
        /\ exit_code \notin {0, -1}
        /\ error = "CalledProcessError"

\* C15 witness: tar failed on a non-empty file list, after a signed
\* manifest had been written, and the run ended.
C15_Witness ==
    /\ Failed("tar")
    /\ files_list # <<>>
    /\ Ended
    /\ returncode["sign"] = "ok"

\* C16: from the end of the snapshot stage on no step changes the locked
\* copy (entries, content, modes); from the end of the manifest stage on no
\* step changes the manifest file; from the end of the package stage on no
\* step changes the bundle; this includes the steps that end the run in
\* failure.
C16_EarlierOutputsUntouched ==
    [][/\ Printed("Archived to") => copy' = copy
       /\ Printed("Checksums") => checksum_file' = checksum_file
       /\ Printed("Encrypted tarball") => tarball_file' = tarball_file]_vars

\* C16 witness: the package stage failed (tar or the lock of the bundle
\* raised) and the locked copy and the signed manifest are on disk.
C16_Witness ==
    /\ Ended
    /\ exit_code = 1
    /\ out = <<"Archived to", "Checksums">>
    /\ returncode["tar"] # "none"
    /\ LockedCopyComplete
    /\ checksum_file.state = "complete"
    /\ IsReadOnly(checksum_file)

\* C17: a run is never rejected with FileExistsError because of what runs
\* under other identifiers left at the destination: the error is raised
\* only when an artifact of this identifier (files/IDENT, the manifest or
\* the bundle of IDENT) is already there.
C17_OtherIdentifiersDoNotBlock ==
    [][(error = "none" /\ error' = "FileExistsError") =>
          \/ pc \in {"makedirs_files", "copytree"} /\ Exists(copy)
          \/ pc = "makedirs_checksums" /\ checksum_file.state # "absent"
          \/ pc = "makedirs_tarballs" /\ tarball_file.state # "absent"]_vars

ImgPrinted(line) == \E k \in 1..Len(img_out) : img_out[k] = line

====
